---------------------------- MODULE Spec2Model ----------------------------
(***************************************************************************)
(* redgrease watcher (src/src/watcher.py): file-system events are routed   *)
(* by the handlers on_deleted / on_modified / on_moved to the hysteresis   *)
(* index (file_index.signal), whose timers fire register_script,           *)
(* unregister_script or update_dependencies against a Redis Gears server.  *)
(*                                                                         *)
(* Two specifications share the variables:                                 *)
(*   SpecDebounce  events, the hysteresis index, its timers, the clock;    *)
(*   SpecReg       register_script / unregister_script executed one remote *)
(*                 call at a time against the server and the record store. *)
(***************************************************************************)
EXTENDS Integers, Sequences, FiniteSets, TLC

\* ------------------------------------------------------------------ bounds
\* The clock stops at MaxTime; at most MaxSignals signal() calls are made.
MaxTime == 10
MaxSignals == 3

\* The server hands out at most MaxIds registration identities in all, and
\* one execution of a script creates at most MaxNew registrations.
MaxIds == 3
MaxNew == 2

\* The signals made while the events are noted one by one.
MaxEvents == 2

\* The signals made while the actions they lead to are run command by
\* command, each on the thread of its timer.
MaxActions == 2

\* ----------------------------------------------------------- configuration
\* --hysteresis-duration, default 5.0 seconds (the clock counts seconds).
hysteresis_duration == 5

\* --hysteresis-duration 2: a shorter delay, as one sets it to try things.
quick_duration == 2

\* --script-pattern, default "*.py"
script_pattern == <<"*", ".", "p", "y">>

\* --requirements-pattern, default "*requirements*.txt"
requirements_pattern ==
    <<"*", "r", "e", "q", "u", "i", "r", "e", "m", "e", "n", "t", "s",
      "*", ".", "t", "x", "t">>

\* The watched paths of the model: a script, a requirements file and a file
\* of neither kind.
a_py == <<"a", ".", "p", "y">>
requirements_txt ==
    <<"r", "e", "q", "u", "i", "r", "e", "m", "e", "n", "t", "s",
      ".", "t", "x", "t">>
notes_md == <<"n", "o", "t", "e", "s", ".", "m", "d">>

Paths == {a_py, requirements_txt, notes_md}

\* The script files register_script / unregister_script are called for.
b_py == <<"b", ".", "p", "y">>
ScriptPaths == {a_py, b_py}

\* --index-prefix, default "/redgrease/scripts"
index_prefix == << "/redgrease/scripts" >>

\* The threads that run register_script / unregister_script.
Threads == 0..MaxActions

\* Python's None where an identity is expected (identities count from 1).
None == 0

\* No exception, no file state seen yet, no path.
NoExc == "none"
NoPath == << >>

\* ------------------------------------------------------------------ fnmatch
\* fnmatch.fnmatch(name, pat) on a POSIX system (normcase is the identity):
\* "*" matches any run of characters, "?" any one character, every other
\* character itself.  Matching is decided from position i of the name and
\* position j of the pattern.
RECURSIVE match_from(_, _, _, _)
match_from(name, pat, i, j) ==
    IF j > Len(pat) THEN i > Len(name)
    ELSE IF pat[j] = "*"
         THEN \E k \in i..(Len(name) + 1) : match_from(name, pat, k, j + 1)
    ELSE IF i > Len(name) THEN FALSE
    ELSE IF pat[j] = "?" \/ pat[j] = name[i]
         THEN match_from(name, pat, i + 1, j + 1)
    ELSE FALSE

fnmatch(name, pat) == match_from(name, pat, 1, 1)

\* ---------------------------------------------------------------- variables
VARIABLES
    now,         \* the clock, in seconds
    file_index,  \* the HysteresisHandlerIndex: [duration, index, timers]
    sigs,        \* history: the signal() calls made, in order
    fires,       \* history: the actions the timers invoked, in order
    ev,          \* history: the event the observer delivered last
    main,        \* the main thread: its place in the main loop, running,
                 \* whether redis was closed, whether the process lives
    regs,        \* the server: the identities of its registrations
    next_id,     \* the server: the number of identities handed out so far
    hashes,      \* the server's key-value store: reg_key -> RegistrationRecord
    th,          \* each thread's call of register_script / unregister_script
    prev         \* history: the call a thread made just before the current
                 \* one, kept when the current one is unregister_script for
                 \* the same path

debounce_vars == <<now, file_index, sigs, fires, ev, main>>
remote_vars == <<regs, next_id, hashes, th, prev>>
vars == <<now, file_index, sigs, fires, ev, main, regs, next_id, hashes, th,
         prev>>

\* ------------------------------------------------- the hysteresis index
\* HysteresisHandlerIndex(duration): no pending action.  index is the dict
\* key -> timer handle; timers is the set of live (started, neither
\* cancelled nor fired) timers.
HysteresisHandlerIndex(duration) ==
    [duration |-> duration, index |-> << >>, timers |-> {}]

\* A signal() call as the handlers make it: key, action and its argument.
SignalCall(key, action, arg) == [key |-> key, action |-> action, arg |-> arg]

\* signal() that forgets to cancel the timer it replaces (a bug).
signal_no_cancel(fi, call, t, id) ==
    LET timer == [id |-> id, key |-> call.key, action |-> call.action,
                  arg |-> call.arg, deadline |-> t + fi.duration]
    IN  [fi EXCEPT
           !.timers = fi.timers \cup {timer},
           !.index = [k \in DOMAIN fi.index \cup {call.key} |->
                        IF k = call.key THEN id ELSE fi.index[k]]]

\* signal() that installs its timer under the key without starting it (a
\* bug): the entry stays and nothing ever fires.
signal_not_started(fi, call, t, id) ==
    LET old == IF call.key \in DOMAIN fi.index THEN {fi.index[call.key]} ELSE {}
    IN  [fi EXCEPT
           !.timers = {x \in fi.timers : x.id \notin old},
           !.index = [k \in DOMAIN fi.index \cup {call.key} |->
                        IF k = call.key THEN id ELSE fi.index[k]]]

\* signal(key, action, *args) at time t, the call being the id-th one: a
\* pending timer of the key is cancelled, a new timer is started with the
\* full delay and installed under the key.  One atomic step.
signal(fi, call, t, id) ==
    LET old == IF call.key \in DOMAIN fi.index THEN {fi.index[call.key]} ELSE {}
        timer == [id |-> id, key |-> call.key, action |-> call.action,
                  arg |-> call.arg, deadline |-> t + fi.duration]
    IN  [fi EXCEPT
           !.timers = {x \in fi.timers : x.id \notin old} \cup {timer},
           !.index = [k \in DOMAIN fi.index \cup {call.key} |->
                        IF k = call.key THEN id ELSE fi.index[k]]]

\* The calls of a handler applied in order, the first being call number id.
RECURSIVE signal_all(_, _, _, _)
signal_all(fi, calls, t, id) ==
    IF calls = << >> THEN fi
    ELSE signal_all(signal(fi, Head(calls), t, id), Tail(calls), t, id + 1)

\* expire that leaves the entry of the key in the index (a bug).
expire_keep_entry(fi, timer) ==
    [fi EXCEPT !.timers = fi.timers \ {timer}]

\* A timer that ran out: its entry leaves the index (unless a later signal
\* replaced it) and the timer is live no more.
expire(fi, timer) ==
    [fi EXCEPT
       !.timers = fi.timers \ {timer},
       !.index = [k \in {k \in DOMAIN fi.index : fi.index[k] # timer.id} |->
                    fi.index[k]]]

\* ------------------------------------------------- the Redis Gears server
\* The key of a script's RegistrationRecord: f"{config.index_prefix}{script_path}"
reg_key(script_path) == index_prefix \o script_path

\* redis.hget(key, field): None when the hash or the field is absent.
hget(h, key, field) == IF key \in DOMAIN h THEN h[key][field] ELSE None

\* redis.hset(key, mapping=...), the mapping naming every field of the record.
hset(h, key, mapping) ==
    [k \in DOMAIN h \cup {key} |-> IF k = key THEN mapping ELSE h[k]]

\* redis.delete(key): deleting an absent key is a no-op.
delete(h, key) == [k \in DOMAIN h \ {key} |-> h[k]]

\* The identity the RegistrationRecord of a path holds, or None.
RecordOf(script_path) == hget(hashes, reg_key(script_path), "registration_id")

\* ------------------------------------------------------------ the threads
\* A thread between calls.
Idle ==
    [op |-> "idle", path |-> NoPath, pc |-> "done", exc |-> NoExc,
     reg_id |-> None, pre_reg |-> {}, post_reg |-> {}, log |-> {},
     last |-> "none", file_seen |-> "unseen", ncalls |-> 0, nremove |-> 0, regs0 |-> {},
     rec0 |-> None, created |-> {}, upset |-> FALSE]

\* The call op(path) at its first statement.  rec0 notes the path's record
\* when the call starts and, for register_script, regs0 the server's
\* registration set.
Started(op, path) ==
    [Idle EXCEPT !.op = op, !.path = path,
                 !.pc = CASE op = "register_script" -> "isfile"
                          [] op = "update_dependencies" -> "requirements"
                          [] OTHER -> "hget",
                 !.regs0 = IF op = "register_script" THEN regs ELSE {},
                 !.rec0 = RecordOf(path)]

\* The call ends; last keeps the statement it ended at.
Done(T) == [T EXCEPT !.pc = "done", !.last = T.pc]

\* The call ends by raising exception exc to its caller.
Raised(T, exc) == [Done(T) EXCEPT !.exc = exc]

\* One more command sent to the server.
Sent(T) == [T EXCEPT !.ncalls = @ + 1]

\* A command failed for a reason other than the server's rejection.  upset
\* notes that the call did not have the server to itself and in order: a
\* command of it failed, or somebody else changed the registrations.
Failed(T) == [T EXCEPT !.upset = TRUE]

\* register_script's "except Exception": log.error, and the call returns.
Caught(T) ==
    [Done(Failed(T)) EXCEPT !.log = @ \cup {"error: something went wrong"}]

\* What is kept of a call when the next one starts.  clean: the call
\* returned, none of its commands failed, nobody else changed the server's
\* registrations since it started, and its script created at most one
\* registration.
Summary(T) ==
    [op |-> T.op, path |-> T.path, regs0 |-> T.regs0, rec0 |-> T.rec0,
     nremove |-> T.nremove, returned |-> T.exc = NoExc,
     clean |-> T.exc = NoExc /\ ~T.upset /\ Cardinality(T.created) <= 1]

FileStates == {"missing", "empty", "script"}

InitRemote ==
    /\ regs = {}
    /\ next_id = 0
    /\ hashes = << >>
    /\ th = [c \in Threads |-> Idle]
    /\ prev = [c \in Threads |-> Summary(Idle)]

\* A thread calls register_script(path) or unregister_script(path).
Call(c, op, path) ==
    /\ th[c].pc = "done"
    /\ prev' = [prev EXCEPT ![c] =
                    IF op = "unregister_script" /\ th[c].path = path
                    THEN Summary(th[c]) ELSE Summary(Idle)]
    /\ th' = [th EXCEPT ![c] = Started(op, path)]
    /\ UNCHANGED <<regs, next_id, hashes, debounce_vars>>

\* --- register_script, lines 226-227: the file must exist.  The file system
\* is the environment's: found is the state the file is in at this moment.
register_isfile(c, found) ==
    LET T == th[c] IN
    /\ T.op = "register_script" /\ T.pc = "isfile"
    /\ th' = [th EXCEPT ![c] =
                IF found = "missing"
                THEN Raised([T EXCEPT !.file_seen = "missing",
                                      !.log = @ \cup {"error: file not found"}],
                            "FileNotFoundError")
                ELSE [T EXCEPT !.pc = "read"]]
    /\ UNCHANGED <<regs, next_id, hashes, prev, debounce_vars>>

\* register_read that goes on with an empty script (a bug).
register_read_no_empty_check(c, found) ==
    LET T == th[c] IN
    /\ T.op = "register_script" /\ T.pc = "read"
    /\ th' = [th EXCEPT ![c] =
                IF found = "missing"
                THEN Raised([T EXCEPT !.file_seen = "gone"],
                            "FileNotFoundError")
                ELSE [T EXCEPT !.file_seen = found, !.pc = "hget"]]
    /\ UNCHANGED <<regs, next_id, hashes, prev, debounce_vars>>

\* --- register_script, lines 229-233: the file is read (open() raises when
\* it has gone meanwhile) and must not be empty.
register_read(c, found) ==
    LET T == th[c] IN
    /\ T.op = "register_script" /\ T.pc = "read"
    /\ th' = [th EXCEPT ![c] =
                CASE found = "missing" ->
                       Raised([T EXCEPT !.file_seen = "gone"],
                              "FileNotFoundError")
                  [] found = "empty" ->
                       Raised([T EXCEPT !.file_seen = "empty",
                                        !.log = @ \cup {"error: file is empty"}],
                              "IOError")
                  [] OTHER ->
                       [T EXCEPT !.file_seen = "script", !.pc = "hget"]]
    /\ UNCHANGED <<regs, next_id, hashes, prev, debounce_vars>>

\* unregister_hget that looks the record up under the bare path, without
\* the index prefix (a bug): it finds none.
unregister_hget_no_prefix(c, ok) ==
    LET T == Sent(th[c]) IN
    /\ T.op \in {"register_script", "unregister_script"} /\ T.pc = "hget"
    /\ th' = [th EXCEPT ![c] =
                IF ok
                THEN LET id == hget(hashes, T.path, "registration_id")
                     IN  [T EXCEPT !.reg_id = id,
                                   !.pc = IF id # None THEN "unregister"
                                                       ELSE "delete"]
                ELSE Raised(Failed(T), "ConnectionError")]
    /\ UNCHANGED <<regs, next_id, hashes, prev, debounce_vars>>

\* --- unregister_script, lines 293-295 (also register_script's line 238):
\* the record's identity is looked up.  A failure of the command propagates.
unregister_hget(c, ok) ==
    LET T == Sent(th[c]) IN
    /\ T.op \in {"register_script", "unregister_script"} /\ T.pc = "hget"
    /\ th' = [th EXCEPT ![c] =
                IF ok
                THEN LET id == RecordOf(T.path)
                     IN  [T EXCEPT !.reg_id = id,
                                   !.pc = IF id # None THEN "unregister"
                                                       ELSE "delete"]
                ELSE Raised(Failed(T), "ConnectionError")]
    /\ UNCHANGED <<regs, next_id, hashes, prev, debounce_vars>>

\* --- unregister_script, lines 300-308: RG.UNREGISTER reg_id.  The server
\* rejects an identity it does not know (ResponseError: warning, go on); any
\* other failure propagates.
unregister_call(c, ok) ==
    LET T == [Sent(th[c]) EXCEPT !.nremove = @ + 1] IN
    /\ T.pc = "unregister"
    /\ IF ok
       THEN /\ regs' = regs \ {T.reg_id}
            /\ th' = [th EXCEPT ![c] =
                        IF T.reg_id \in regs
                        THEN [T EXCEPT !.pc = "delete"]
                        ELSE [T EXCEPT !.pc = "delete",
                                       !.log = @ \cup
                                          {"warning: unregistration failed"}]]
       ELSE /\ regs' = regs
            /\ th' = [th EXCEPT ![c] = Raised(Failed(T), "ConnectionError")]
    /\ UNCHANGED <<next_id, hashes, prev, debounce_vars>>

\* unregister_delete that leaves the record in place when it is the
\* pre-clean of register_script (a bug): the old record as a fallback.
unregister_delete_fallback(c, ok) ==
    LET T == Sent(th[c]) IN
    /\ T.pc = "delete"
    /\ IF ok
       THEN /\ hashes' = IF T.op = "register_script" THEN hashes
                         ELSE delete(hashes, reg_key(T.path))
            /\ th' = [th EXCEPT ![c] =
                        IF T.op = "register_script"
                        THEN [T EXCEPT !.pc = "pre_dump"] ELSE Done(T)]
       ELSE /\ hashes' = hashes
            /\ th' = [th EXCEPT ![c] = Raised(Failed(T), "ConnectionError")]
    /\ UNCHANGED <<regs, next_id, prev, debounce_vars>>

\* --- unregister_script, line 309: the record is deleted.
unregister_delete(c, ok) ==
    LET T == Sent(th[c]) IN
    /\ T.pc = "delete"
    /\ IF ok
       THEN /\ hashes' = delete(hashes, reg_key(T.path))
            /\ th' = [th EXCEPT ![c] =
                        IF T.op = "register_script"
                        THEN [T EXCEPT !.pc = "pre_dump"] ELSE Done(T)]
       ELSE /\ hashes' = hashes
            /\ th' = [th EXCEPT ![c] = Raised(Failed(T), "ConnectionError")]
    /\ UNCHANGED <<regs, next_id, prev, debounce_vars>>

\* unregister_script(script_path), one command at a time.
unregister_script(c) ==
    \E ok \in BOOLEAN :
        \/ unregister_hget(c, ok)
        \/ unregister_call(c, ok)
        \/ unregister_delete(c, ok)

\* --- register_script, line 246: RG.DUMPREGISTRATIONS before the execution.
register_pre_dump(c, ok) ==
    LET T == Sent(th[c]) IN
    /\ T.pc = "pre_dump"
    /\ th' = [th EXCEPT ![c] =
                IF ok THEN [T EXCEPT !.pre_reg = regs, !.pc = "execute"]
                      ELSE Caught(T)]
    /\ UNCHANGED <<regs, next_id, hashes, prev, debounce_vars>>

\* --- register_script, lines 247-251: RG.PYEXECUTE runs the script, which
\* creates n registrations under identities the server never used before.
register_execute(c, ok, n) ==
    LET T == Sent(th[c])
        new == (next_id + 1)..(next_id + n)
    IN
    /\ T.pc = "execute"
    /\ next_id + n <= MaxIds
    /\ IF ok
       THEN /\ regs' = regs \cup new
            /\ next_id' = next_id + n
            /\ th' = [th EXCEPT ![c] =
                        [T EXCEPT !.created = new, !.pc = "post_dump"]]
       ELSE /\ n = 0
            /\ UNCHANGED <<regs, next_id>>
            /\ th' = [th EXCEPT ![c] = Caught(T)]
    /\ UNCHANGED <<hashes, prev, debounce_vars>>

\* --- register_script, line 253: RG.DUMPREGISTRATIONS after the execution.
register_post_dump(c, ok) ==
    LET T == Sent(th[c]) IN
    /\ T.pc = "post_dump"
    /\ th' = [th EXCEPT ![c] =
                IF ok THEN [T EXCEPT !.post_reg = regs, !.pc = "record"]
                      ELSE Caught(T)]
    /\ UNCHANGED <<regs, next_id, hashes, prev, debounce_vars>>

\* register_record that takes its identity from the snapshot after the
\* execution instead of from the difference (a bug).
register_record_from_post(c, ok, reg_id) ==
    LET T == th[c]
        diff_reg == T.post_reg \ T.pre_reg
    IN
    /\ T.pc = "record"
    /\ diff_reg # {} /\ ok /\ reg_id \in T.post_reg
    /\ hashes' = hset(hashes, reg_key(T.path),
                      [registration_id |-> reg_id, last_updated |-> now])
    /\ th' = [th EXCEPT ![c] =
                [Done(Sent(T)) EXCEPT !.reg_id = reg_id,
                                      !.log = @ \cup {"debug: registered"}]]
    /\ UNCHANGED <<regs, next_id, prev, debounce_vars>>

\* register_record that writes a record although nothing new was registered:
\* the identity it looked up before (a bug).
register_record_always(c, ok, reg_id) ==
    LET T == th[c] IN
    /\ T.pc = "record"
    /\ ok /\ reg_id = T.reg_id
    /\ hashes' = hset(hashes, reg_key(T.path),
                      [registration_id |-> reg_id, last_updated |-> now])
    /\ th' = [th EXCEPT ![c] =
                [Done(Sent(T)) EXCEPT !.log = @ \cup {"debug: registered"}]]
    /\ UNCHANGED <<regs, next_id, prev, debounce_vars>>

\* register_record that warns whenever it writes a record (a bug: the test
\* of the warning made before the pop).
register_record_warn_early(c, ok, reg_id) ==
    LET T == th[c]
        diff_reg == T.post_reg \ T.pre_reg
    IN
    /\ T.pc = "record"
    /\ diff_reg # {} /\ ok /\ reg_id \in diff_reg
    /\ hashes' = hset(hashes, reg_key(T.path),
                      [registration_id |-> reg_id, last_updated |-> now])
    /\ th' = [th EXCEPT ![c] =
                [Done(Sent(T)) EXCEPT
                   !.reg_id = reg_id,
                   !.log = @ \cup {"debug: registered",
                                   "warning: multiple registrations"}]]
    /\ UNCHANGED <<regs, next_id, prev, debounce_vars>>

\* --- register_script, lines 254-277: the difference of the two snapshots.
\* Empty: nothing is recorded.  Otherwise one identity is popped from it
\* (any one) and written as the path's record, and the warning is logged
\* when identities are left in the difference after the pop.
register_record(c, ok, reg_id) ==
    LET T == th[c]
        diff_reg == T.post_reg \ T.pre_reg
    IN
    /\ T.pc = "record"
    /\ IF diff_reg = {}
       THEN /\ ok /\ reg_id = None
            /\ hashes' = hashes
            /\ th' = [th EXCEPT ![c] =
                        [Done(T) EXCEPT !.log = @ \cup {"debug: executed"}]]
       ELSE /\ reg_id \in diff_reg
            /\ IF ok
               THEN /\ hashes' = hset(hashes, reg_key(T.path),
                                      [registration_id |-> reg_id,
                                       last_updated |-> now])
                    /\ th' = [th EXCEPT ![c] =
                                [Done(Sent(T)) EXCEPT
                                   !.reg_id = reg_id,
                                   !.log = @ \cup {"debug: registered"} \cup
                                       IF diff_reg \ {reg_id} # {}
                                       THEN {"warning: multiple registrations"}
                                       ELSE {}]]
               ELSE /\ hashes' = hashes
                    /\ th' = [th EXCEPT ![c] = Caught(Sent(T))]
    /\ UNCHANGED <<regs, next_id, prev, debounce_vars>>

\* register_script(script_path), one statement or command at a time; its
\* line 238 is unregister_script(script_path).
register_script(c) ==
    \/ \E found \in FileStates :
          \/ register_isfile(c, found)
          \/ register_read(c, found)
    \/ th[c].op = "register_script" /\ unregister_script(c)
    \/ \E ok \in BOOLEAN :
          \/ register_pre_dump(c, ok)
          \/ \E n \in 0..MaxNew : register_execute(c, ok, n)
          \/ register_post_dump(c, ok)
          \/ \E reg_id \in {None} \cup (1..MaxIds) :
                register_record(c, ok, reg_id)

\* --- update_dependencies, line 320: requirements.read(...) inside the try;
\* a file that cannot be read is caught and logged.
update_read(c, found) ==
    LET T == th[c] IN
    /\ T.op = "update_dependencies" /\ T.pc = "requirements"
    /\ th' = [th EXCEPT ![c] =
                IF found = "missing"
                THEN Caught([T EXCEPT !.file_seen = "missing"])
                ELSE [T EXCEPT !.file_seen = found, !.pc = "pyexecute"]]
    /\ UNCHANGED <<regs, next_id, hashes, prev, debounce_vars>>

\* --- update_dependencies, lines 321-325: RG.PYEXECUTE "GB().run()" with
\* the REQUIREMENTS; it registers nothing.  A failure is caught and logged.
update_execute(c, ok) ==
    LET T == Sent(th[c]) IN
    /\ T.op = "update_dependencies" /\ T.pc = "pyexecute"
    /\ th' = [th EXCEPT ![c] = IF ok THEN Done(T) ELSE Caught(T)]
    /\ UNCHANGED <<regs, next_id, hashes, prev, debounce_vars>>

\* update_dependencies(requirements_file_path), one step at a time.
update_dependencies(c) ==
    \/ \E found \in FileStates : update_read(c, found)
    \/ \E ok \in BOOLEAN : update_execute(c, ok)

\* ------------------------------------------------------- the environment
\* Every thread that has made a call notes that somebody else changed the
\* server's registrations since that call started.
Disturbed ==
    [c \in Threads |->
        IF th[c].op = "idle" THEN th[c] ELSE [th[c] EXCEPT !.upset = TRUE]]

\* Another user of the server registers something.
other_register ==
    /\ next_id < MaxIds
    /\ regs' = regs \cup {next_id + 1}
    /\ next_id' = next_id + 1
    /\ th' = Disturbed
    /\ UNCHANGED <<hashes, prev, debounce_vars>>

\* Another user of the server removes a registration.
other_unregister(id) ==
    /\ id \in regs
    /\ regs' = regs \ {id}
    /\ th' = Disturbed
    /\ UNCHANGED <<next_id, hashes, prev, debounce_vars>>

\* ------------------------------------------------------- the event handlers
\* Each handler is the sequence of signal() calls it makes.

\* on_deleted with the key of a deletion kept apart from the path's other
\* events (a bug: the pending action of the path is no longer replaced).
on_deleted_own_key(file) ==
    IF fnmatch(file, script_pattern)
    THEN << SignalCall(<<"deleted">> \o file, "unregister_script", file) >>
    ELSE << >>

\* on_deleted that takes the deletion of a requirements file for a change of
\* it (a bug).
on_deleted_requirements(file) ==
    IF fnmatch(file, script_pattern)
    THEN << SignalCall(file, "unregister_script", file) >>
    ELSE IF fnmatch(file, requirements_pattern)
    THEN << SignalCall(file, "update_dependencies", file) >>
    ELSE << >>

on_deleted(file) ==
    IF fnmatch(file, script_pattern)
    THEN << SignalCall(file, "unregister_script", file) >>
    ELSE IF fnmatch(file, requirements_pattern) THEN << >>
    ELSE << >>

\* on_modified with the key of a modification kept apart likewise (a bug).
on_modified_own_key(file) ==
    IF fnmatch(file, script_pattern)
    THEN << SignalCall(<<"modified">> \o file, "register_script", file) >>
    ELSE IF fnmatch(file, requirements_pattern)
    THEN << SignalCall(file, "update_dependencies", file) >>
    ELSE << >>

\* on_modified that registers whatever file was modified (a bug).
on_modified_any(file) ==
    IF fnmatch(file, requirements_pattern)
    THEN << SignalCall(file, "update_dependencies", file) >>
    ELSE << SignalCall(file, "register_script", file) >>

on_modified(file) ==
    IF fnmatch(file, script_pattern)
    THEN << SignalCall(file, "register_script", file) >>
    ELSE IF fnmatch(file, requirements_pattern)
    THEN << SignalCall(file, "update_dependencies", file) >>
    ELSE << >>

\* on_moved as one if/elif chain (a bug): the destination is looked at only
\* when the source is not a script.
on_moved_one_chain(old_file, new_file) ==
    IF fnmatch(old_file, script_pattern)
    THEN << SignalCall(old_file, "unregister_script", old_file) >>
    ELSE IF fnmatch(new_file, script_pattern)
    THEN << SignalCall(new_file, "register_script", new_file) >>
    ELSE IF fnmatch(new_file, requirements_pattern)
    THEN << SignalCall(new_file, "update_dependencies", new_file) >>
    ELSE << >>

on_moved(old_file, new_file) ==
    ( IF fnmatch(old_file, script_pattern)
      THEN << SignalCall(old_file, "unregister_script", old_file) >>
      ELSE << >> )
    \o
    ( IF fnmatch(new_file, script_pattern)
      THEN << SignalCall(new_file, "register_script", new_file) >>
      ELSE IF fnmatch(new_file, requirements_pattern)
      THEN << SignalCall(new_file, "update_dependencies", new_file) >>
      ELSE << >> )

\* event_handler: on_deleted, on_modified and on_moved are installed; a
\* created event keeps the handler class's default, which does nothing.
EventKinds == {"created", "modified", "deleted", "moved"}

event_handler(kind, src_path, dest_path) ==
    CASE kind = "deleted"  -> on_deleted(src_path)
      [] kind = "modified" -> on_modified(src_path)
      [] kind = "moved"    -> on_moved(src_path, dest_path)
      [] OTHER             -> << >>

\* What the handler does with each event on the watched paths, tabulated.
handled ==
    [kind \in EventKinds, src_path \in Paths, dest_path \in Paths |->
        event_handler(kind, src_path, dest_path)]

\* ------------------------------------------------------------------ actions
\* The main thread in its loop, "while running: sleep(1)", the observer
\* started.  stopped_at: the signals made when the interrupt was handled.
Started_main ==
    [pc |-> "loop", running |-> TRUE, closed |-> FALSE, alive |-> TRUE,
     exc |-> NoExc, stopped_at |-> 0]

\* No event delivered yet.
NoEvent == [kind |-> "none", src_path |-> NoPath, dest_path |-> NoPath,
            first |-> 1]

Init ==
    /\ now = 0
    /\ file_index = HysteresisHandlerIndex(hysteresis_duration)
    /\ sigs = << >>
    /\ fires = << >>
    /\ ev = NoEvent
    /\ main = Started_main
    /\ InitRemote

\* The history entries of the calls a handler makes at the current time.
Logged(calls) == [i \in 1..Len(calls) |-> [t |-> now, key |-> calls[i].key,
                     action |-> calls[i].action, arg |-> calls[i].arg]]

\* The observer delivers one event to the handler.
Event(kind, src_path, dest_path) ==
    LET calls == handled[kind, src_path, dest_path]
    IN  /\ calls # << >>
        /\ Len(sigs) + Len(calls) <= MaxSignals
        /\ file_index' = signal_all(file_index, calls, now, Len(sigs) + 1)
        /\ sigs' = sigs \o Logged(calls)
        /\ UNCHANGED <<now, fires, ev, main, remote_vars>>

\* A second passes; no live timer is overdue.
Tick ==
    /\ now < MaxTime
    /\ \A x \in file_index.timers : x.deadline > now
    /\ now' = now + 1
    /\ UNCHANGED <<file_index, sigs, fires, ev, main, remote_vars>>

\* A live timer whose delay has run out invokes its action.
Fire(timer) ==
    /\ timer.deadline <= now
    /\ file_index' = expire(file_index, timer)
    /\ fires' = Append(fires, [t |-> now, id |-> timer.id, action |-> timer.action,
                               arg |-> timer.arg, seen |-> Len(sigs)])
    /\ UNCHANGED <<now, sigs, ev, main, remote_vars>>

Deliver ==
    \E kind \in EventKinds : \E src_path \in Paths : \E dest_path \in Paths :
        Event(kind, src_path, dest_path)

Expire == \E timer \in file_index.timers : Fire(timer)

NextDebounce == Deliver \/ Tick \/ Expire

SpecDebounce == Init /\ [][NextDebounce]_vars

\* The thread of the timer the id-th signal() call started.
TimerThread(id) == id

\* An action the thread c runs has not come to its end.
InFlight(c) == th[c].op # "idle" /\ th[c].pc # "done"

\* The action the thread c ran ended in failure: it raised, or logged the
\* error it caught.
FailedAction(c) ==
    /\ th[c].op # "idle" /\ th[c].pc = "done"
    /\ \/ th[c].exc # NoExc
       \/ "error: something went wrong" \in th[c].log

\* Run with one worker for all the timers (a bug): an action waits for the
\* one in flight.
Run_one_worker(timer) ==
    /\ timer.deadline <= now
    /\ \A c \in Threads : ~InFlight(c)
    /\ file_index' = expire(file_index, timer)
    /\ fires' = Append(fires, [t |-> now, id |-> timer.id, action |-> timer.action,
                               arg |-> timer.arg, seen |-> Len(sigs)])
    /\ th' = [th EXCEPT ![TimerThread(timer.id)] =
                Started(timer.action, timer.arg)]
    /\ UNCHANGED <<now, sigs, ev, main, regs, next_id, hashes, prev>>

\* Run that gives up a key once an action for it has failed (a bug).
Run_unless_failed(timer) ==
    /\ timer.deadline <= now
    /\ \A c \in Threads : FailedAction(c) => th[c].path # timer.arg
    /\ file_index' = expire(file_index, timer)
    /\ fires' = Append(fires, [t |-> now, id |-> timer.id, action |-> timer.action,
                               arg |-> timer.arg, seen |-> Len(sigs)])
    /\ th' = [th EXCEPT ![TimerThread(timer.id)] =
                Started(timer.action, timer.arg)]
    /\ UNCHANGED <<now, sigs, ev, main, regs, next_id, hashes, prev>>

\* A live timer whose delay has run out leaves the index and invokes its
\* action on its own thread.
Run(timer) ==
    /\ timer.deadline <= now
    /\ file_index' = expire(file_index, timer)
    /\ fires' = Append(fires, [t |-> now, id |-> timer.id, action |-> timer.action,
                               arg |-> timer.arg, seen |-> Len(sigs)])
    /\ th' = [th EXCEPT ![TimerThread(timer.id)] =
                Started(timer.action, timer.arg)]
    /\ UNCHANGED <<now, sigs, ev, main, regs, next_id, hashes, prev>>

\* An event is delivered while actions are in flight.
Signalled ==
    \E kind \in EventKinds : \E src_path \in Paths : \E dest_path \in Paths :
        /\ Event(kind, src_path, dest_path)
        /\ Len(sigs') <= MaxActions

\* The action a timer invoked takes its next step.  The scripts watched
\* register one thing at most.
Step(c) ==
    \/ register_script(c) /\ Cardinality(th'[c].created) <= 1
    \/ th[c].op = "unregister_script" /\ unregister_script(c)
    \/ update_dependencies(c)

\* The watcher started with the shorter delay.
InitWatch ==
    /\ now = 0
    /\ file_index = HysteresisHandlerIndex(quick_duration)
    /\ sigs = << >>
    /\ fires = << >>
    /\ ev = NoEvent
    /\ main = Started_main
    /\ InitRemote

\* The clock runs for two delays, so that a key can fire twice.
NextWatch ==
    \/ Signalled
    \/ now < 2 * file_index.duration /\ Tick
    \/ \E timer \in file_index.timers : Run(timer)
    \/ \E c \in 1..MaxActions : Step(c)

SpecWatch == InitWatch /\ [][NextWatch]_vars

\* --- lines 471-473: the interrupt is caught in the main loop, running
\* is cleared.
KeyboardInterrupt ==
    /\ main.pc = "loop"
    /\ main' = [main EXCEPT !.pc = "finally", !.running = FALSE,
                            !.stopped_at = Len(sigs)]
    /\ UNCHANGED <<now, file_index, sigs, fires, ev, remote_vars>>

\* --- lines 468-470, 474: any other exception leaves the loop; nothing
\* catches it, the finally clause runs.
OtherException ==
    /\ main.pc = "loop"
    /\ main' = [main EXCEPT !.pc = "finally", !.exc = "Exception"]
    /\ UNCHANGED <<now, file_index, sigs, fires, ev, remote_vars>>

\* --- lines 474-475: finally: redis.close(); the main thread is at its end.
Close ==
    /\ main.pc = "finally"
    /\ main' = [main EXCEPT !.pc = "exited", !.closed = TRUE]
    /\ UNCHANGED <<now, file_index, sigs, fires, ev, remote_vars>>

\* The process ends after the main thread has: at once, the timers
\* abandoned, or later, the timers left to run out.  The observer's threads
\* end with the process, not before: nothing stops them.
Exit ==
    /\ main.pc = "exited" /\ main.alive
    /\ main' = [main EXCEPT !.alive = FALSE]
    /\ UNCHANGED <<now, file_index, sigs, fires, ev, remote_vars>>

\* The watcher from its start to the end of its process.
NextMain ==
    \/ KeyboardInterrupt
    \/ OtherException
    \/ Close
    \/ Exit
    \/ main.alive /\ Deliver /\ Len(sigs') <= MaxEvents
    \/ main.alive /\ Tick
    \/ main.alive /\ Expire

SpecMain == Init /\ [][NextMain]_vars

\* The observer delivers one event to the handler, whatever the handler
\* makes of it; the event is noted with the place in the history of the
\* first signal() call it leads to, if any.  (dest_path is that of a moved
\* event; the other kinds have none.)
Observe(kind, src_path, dest_path) ==
    LET calls == handled[kind, src_path, dest_path]
    IN  /\ Len(sigs) + Len(calls) <= MaxEvents
        /\ kind # "moved" => dest_path = src_path
        /\ file_index' = signal_all(file_index, calls, now, Len(sigs) + 1)
        /\ sigs' = sigs \o Logged(calls)
        /\ ev' = [kind |-> kind, src_path |-> src_path,
                  dest_path |-> IF kind = "moved" THEN dest_path ELSE NoPath,
                  first |-> Len(sigs) + 1]
        /\ UNCHANGED <<now, fires, main, remote_vars>>

Observed ==
    \E kind \in EventKinds : \E src_path \in Paths : \E dest_path \in Paths :
        Observe(kind, src_path, dest_path)

NextClassify == Observed \/ Tick \/ Expire

SpecClassify == Init /\ [][NextClassify]_vars

\* The sequential caller: one thread makes one call after the other.
Caller == 0

NextReg ==
    \/ \E path \in ScriptPaths :
          \/ Call(Caller, "register_script", path)
          \/ Call(Caller, "unregister_script", path)
    \/ register_script(Caller)
    \/ th[Caller].op = "unregister_script" /\ unregister_script(Caller)
    \/ other_register
    \/ \E id \in 1..MaxIds : other_unregister(id)

SpecReg == Init /\ [][NextReg]_vars

\* Two keys fire at about the same time: each timer thread runs one action
\* for a script, the commands of the actions interleaved on the server as
\* they come.  Nobody else uses the server.
Fired(c, op, path) == th[c].op = "idle" /\ Call(c, op, path)

NextPair ==
    \/ \E c \in 1..MaxActions : \E path \in ScriptPaths :
          \/ Fired(c, "register_script", path)
          \/ Fired(c, "unregister_script", path)
    \/ \E c \in 1..MaxActions :
          \/ register_script(c) /\ Cardinality(th'[c].created) <= 1
          \/ th[c].op = "unregister_script" /\ unregister_script(c)

SpecPair == Init /\ [][NextPair]_vars

\* The debouncing under fair scheduling of the timers: time does not stop,
\* and a timer whose delay has run out gets to run.  Events come while a
\* full delay is left on the clock.
Arrive ==
    /\ now + file_index.duration <= MaxTime
    /\ Deliver
    /\ Len(sigs') <= MaxEvents

NextLive == Arrive \/ Tick \/ Expire

SpecLive ==
    Init /\ [][NextLive]_vars /\ WF_vars(Tick) /\ WF_vars(Expire)

\* ------------------------------------------------------- debounce histories
D == file_index.duration

\* The signals made for path p, by their place in the history.
SigsOf(p) == {i \in 1..Len(sigs) : sigs[i].arg = p}

\* The signals for the same path made after signal i.
Later(i) == {j \in SigsOf(sigs[i].arg) : j > i}

HasNext(i) == Later(i) # {}

NextSig(i) == CHOOSE j \in Later(i) : \A k \in Later(i) : j <= k

Gap(i) == sigs[NextSig(i)].t - sigs[i].t

\* The invocations made by the timer of signal i.
FiredBy(i) == {n \in 1..Len(fires) : fires[n].id = i}

\* Signal i ended its burst and the quiet period after it is over.
BurstOver(i) ==
    \/ HasNext(i) /\ Gap(i) > D
    \/ ~HasNext(i) /\ now > sigs[i].t + D

\* C1 -- last signal wins: every invocation is that of a signal made, with
\* its action and argument; a signal followed within less than the
\* hysteresis duration by another signal for the same path is never invoked;
\* the last signal of a burst is invoked exactly once when the quiet period
\* after the burst is over.  So a burst of N >= 1 signals yields exactly one
\* invocation, that of its last signal.
C1_LastSignalWins ==
    /\ \A n \in 1..Len(fires) :
          /\ fires[n].id \in 1..Len(sigs)
          /\ fires[n].action = sigs[fires[n].id].action
          /\ fires[n].arg = sigs[fires[n].id].arg
    /\ \A i \in 1..Len(sigs) :
          /\ Cardinality(FiredBy(i)) <= 1
          /\ (HasNext(i) /\ Gap(i) < D) => FiredBy(i) = {}
          /\ BurstOver(i) => Cardinality(FiredBy(i)) = 1

\* A deleted event and then a modified event on a.py less than D apart, and
\* the burst has fired: register_script alone.
C1_Witness ==
    /\ Len(sigs) >= 2
    /\ sigs[1].arg = a_py /\ sigs[1].action = "unregister_script"
    /\ sigs[2].arg = a_py /\ sigs[2].action = "register_script"
    /\ sigs[2].t - sigs[1].t \in 1..(D - 1)
    /\ FiredBy(2) # {}
    /\ FiredBy(1) = {}

\* C2 -- in every reachable state each key has at most one live timer, and
\* it is the one the index holds for the key.
C2_OneLiveTimerPerKey ==
    /\ \A x \in file_index.timers : \A y \in file_index.timers :
          x.key = y.key => x = y
    /\ \A x \in file_index.timers :
          x.key \in DOMAIN file_index.index /\ file_index.index[x.key] = x.id

\* A signal has replaced the pending timer of its key: two signals for a.py
\* were made, the first never fired, and a timer of the key is live.
C2_Witness ==
    /\ Len(sigs) >= 2
    /\ sigs[1].key = a_py /\ sigs[2].key = a_py
    /\ FiredBy(1) = {}
    /\ \E x \in file_index.timers : x.key = a_py /\ x.id = 2

\* The signals for the path of invocation n made before it.
SeenBy(n) == {i \in SigsOf(fires[n].arg) : i <= fires[n].seen}

\* C3 -- quiet period: when an action fires, at least the hysteresis
\* duration has passed since every signal made for its path so far, and
\* exactly that duration since the most recent one.
C3_QuietPeriod ==
    \A n \in 1..Len(fires) :
        /\ SeenBy(n) # {}
        /\ \A i \in SeenBy(n) : fires[n].t - sigs[i].t >= D
        /\ \E i \in SeenBy(n) :
              /\ \A j \in SeenBy(n) : j <= i
              /\ fires[n].t = sigs[i].t + D

\* signal(a.py, register_script) at t = 0, 1, 2 with D = 5: one invocation,
\* at t = 7, and none before.
C3_Witness ==
    /\ D = 5
    /\ Len(sigs) = 3
    /\ \A i \in 1..3 : sigs[i] = [t |-> i - 1, key |-> a_py,
                                  action |-> "register_script", arg |-> a_py]
    /\ now > 7
    /\ Len(fires) = 1
    /\ fires[1].t = 7 /\ fires[1].action = "register_script"

\* ------------------------------------------- register / unregister, in turn
\* The sequential caller's current call and the one before it.
Cur == th[Caller]
Prev == prev[Caller]

\* The current call has ended.
Ended(op) == Cur.op = op /\ Cur.pc = "done"

\* The current call is unregister_script(path) made right after another
\* unregister_script(path), which found a record and sent RG.UNREGISTER.
SecondUnregister ==
    /\ Cur.op = "unregister_script"
    /\ Prev.op = "unregister_script" /\ Prev.path = Cur.path
    /\ Prev.nremove = 1

\* C4 -- unregister idempotence, as claimed: of two calls of
\* unregister_script(path) in succession the second sends no RG.UNREGISTER
\* (the two send at most one), and when it returns no record of the path
\* is left.
C4_Claimed ==
    SecondUnregister =>
        /\ Cur.nremove = 0
        /\ (Cur.pc = "done" /\ Cur.exc = NoExc) => RecordOf(Cur.path) = None

\* The current call is unregister_script(path) made right after a
\* register_script(path) that had the server to itself, with every command
\* succeeding and at most one registration created, and so far the
\* unregister_script has too.
RoundTrip ==
    /\ Cur.op = "unregister_script" /\ ~Cur.upset
    /\ Prev.op = "register_script" /\ Prev.path = Cur.path /\ Prev.clean

C6_FilePrecondition ==
    Cur.op = "register_script" =>
        /\ Cur.file_seen \in {"missing", "gone"} =>
              Cur.pc = "done" /\ Cur.exc = "FileNotFoundError"
        /\ Cur.file_seen = "missing" => "error: file not found" \in Cur.log
        /\ Cur.file_seen = "empty" =>
              /\ Cur.pc = "done" /\ Cur.exc = "IOError"
              /\ "error: file is empty" \in Cur.log
        /\ Cur.file_seen \in {"missing", "gone", "empty"} =>
              /\ Cur.ncalls = 0
              /\ RecordOf(Cur.path) = Cur.rec0
              /\ ~Cur.upset => regs = Cur.regs0

\* register_script raised for an empty file while the path had a record of
\* a live registration.
C6_Witness ==
    /\ Ended("register_script")
    /\ Cur.file_seen = "empty"
    /\ Cur.rec0 # None /\ Cur.rec0 \in regs

\* The difference of the two snapshots of the current call.
Diff == Cur.post_reg \ Cur.pre_reg

\* register_script came to the end of its try block: both snapshots were
\* taken and the record, if any was due, was written.
Reconciled ==
    /\ Ended("register_script") /\ Cur.last = "record"
    /\ "error: something went wrong" \notin Cur.log

Warned == "warning: multiple registrations" \in Cur.log

\* C7 -- exactly one new identity: the path's record holds it, never an
\* identity of the snapshot before, and no warning is logged.
C7_SingleNewIdentity ==
    (Reconciled /\ Cardinality(Diff) = 1) =>
        /\ RecordOf(Cur.path) \in Diff
        /\ RecordOf(Cur.path) \notin Cur.pre_reg
        /\ ~Warned

\* Scenario 2: before = {id1}, after = {id1, id2}, the record holds id2.
C7_Witness ==
    /\ Reconciled
    /\ Cur.pre_reg = {1} /\ Cur.post_reg = {1, 2}
    /\ RecordOf(Cur.path) = 2

\* C8 -- no new identity: nothing is recorded, and the path has no record
\* at all after the call.
C8_NoNewIdentity ==
    (Reconciled /\ Diff = {}) =>
        /\ RecordOf(Cur.path) = None
        /\ "debug: executed" \in Cur.log
        /\ "debug: registered" \notin Cur.log

\* Scenario 3 for a path that had a record before the call: before = after
\* = {id1}.
C8_Witness ==
    /\ Reconciled
    /\ Cur.pre_reg = {1} /\ Cur.post_reg = {1}
    /\ Cur.rec0 # None

\* C9 -- several new identities: the record holds one of them and the
\* warning is logged; the warning is logged exactly when the difference has
\* more than one identity.
C9_SeveralNewIdentities ==
    /\ Reconciled =>
          /\ Warned <=> Cardinality(Diff) > 1
          /\ Cardinality(Diff) > 1 => RecordOf(Cur.path) \in Diff
    /\ (Cur.op = "register_script" /\ Warned) => Cardinality(Diff) > 1

\* Scenario 4: before = {}, after = {idA, idB}: one of them recorded, with
\* the warning.
C9_Witness ==
    /\ Reconciled
    /\ Cur.pre_reg = {} /\ Cur.post_reg = {1, 2}
    /\ RecordOf(Cur.path) \in {1, 2}
    /\ Warned

\* C10 as claimed: whatever the outcome of RG.UNREGISTER, after the
\* unregister_script attempt the path has no record.  (An attempt whose
\* lookup found a record and whose delete command, where it came to it, did
\* not fail.)
C10_Claimed ==
    ( /\ Ended("unregister_script")
      /\ Cur.nremove = 1
      /\ ~(Cur.last = "delete" /\ Cur.exc # NoExc) )
    => RecordOf(Cur.path) = None

\* C11 as claimed: once the file precondition has passed (the script was
\* read and is not empty), register_script never ends by raising: whatever
\* command fails, the exception is caught and logged.
C11_Claimed ==
    ( /\ Ended("register_script")
      /\ Cur.file_seen = "script" )
    => Cur.exc = NoExc

\* -------------------------------------------------- events, one at a time
\* What the two patterns make of each watched path.
category ==
    [p \in Paths |->
        IF fnmatch(p, script_pattern) THEN "script"
        ELSE IF fnmatch(p, requirements_pattern) THEN "requirements"
        ELSE "other"]

\* The signal() calls the last event led to, in order.
EvCalls ==
    [i \in 1..(Len(sigs) - ev.first + 1) |->
        SignalCall(sigs[ev.first + i - 1].key, sigs[ev.first + i - 1].action,
                   sigs[ev.first + i - 1].arg)]

\* C12 as claimed: a created event is handled as a modified one: on a script
\* path either leads to signal(path, register_script), on a requirements
\* path to signal(path, update_dependencies).
C12_Claimed ==
    ev.kind \in {"created", "modified"} =>
        /\ category[ev.src_path] = "script" =>
              EvCalls = << SignalCall(ev.src_path, "register_script",
                                      ev.src_path) >>
        /\ category[ev.src_path] = "requirements" =>
              EvCalls = << SignalCall(ev.src_path, "update_dependencies",
                                      ev.src_path) >>

MovedFrom(p) ==
    IF category[p] = "script"
    THEN << SignalCall(p, "unregister_script", p) >> ELSE << >>

MovedTo(p) ==
    CASE category[p] = "script" -> << SignalCall(p, "register_script", p) >>
      [] category[p] = "requirements" ->
            << SignalCall(p, "update_dependencies", p) >>
      [] OTHER -> << >>

\* C14 -- a moved event signals its source as a deletion of its category and
\* its destination as a creation of its category, each under its own path
\* and whatever the other is.
C14_MovedEvents ==
    ev.kind = "moved" => EvCalls = MovedFrom(ev.src_path) \o MovedTo(ev.dest_path)

\* Scenario 5: a script moved to a path that matches neither pattern: the
\* unregister signal for the source and nothing else.
C14_Witness ==
    /\ ev.kind = "moved" /\ ev.src_path = a_py /\ ev.dest_path = notes_md
    /\ EvCalls = << SignalCall(a_py, "unregister_script", a_py) >>

\* C15 -- a path that matches neither pattern is never signalled: no
\* signal() call, index entry or timer has such a path as key, and an event
\* that names only such paths leads to no signal.
C15_UnmatchedPaths ==
    /\ \A i \in 1..Len(sigs) : category[sigs[i].key] # "other"
    /\ \A k \in DOMAIN file_index.index : category[k] # "other"
    /\ \A x \in file_index.timers : category[x.key] # "other"
    /\ ( /\ ev.kind # "none"
         /\ category[ev.src_path] = "other"
         /\ ev.kind = "moved" => category[ev.dest_path] = "other" )
       => EvCalls = << >>

\* An unmatched path was moved to an unmatched path while something else
\* was pending: nothing was signalled for it.
C15_Witness ==
    /\ ev.kind = "moved" /\ ev.src_path = notes_md /\ ev.dest_path = notes_md
    /\ file_index.timers # {}
    /\ EvCalls = << >>

\* ------------------------------------------ the actions the timers invoke
\* The threads of the timers.
Timers == 1..MaxActions

\* The timer of signal i is live, with the full delay from the signal on.
Pending(i) ==
    \E x \in file_index.timers :
        /\ x.id = i
        /\ x.deadline = sigs[i].t + D
        /\ x.key \in DOMAIN file_index.index /\ file_index.index[x.key] = i

\* The timer of signal i invoked its action, once and when its delay was
\* over, and the action runs or has run on the timer's thread.
Invoked(i) ==
    /\ \E n \in 1..Len(fires) :
          FiredBy(i) = {n} /\ fires[n].t = sigs[i].t + D
    /\ th[TimerThread(i)].op = sigs[i].action
    /\ th[TimerThread(i)].path = sigs[i].arg

C17_FireTimeRemoval ==
    /\ \A c \in Timers :
          th[c].op # "idle" =>
              /\ Invoked(c)
              /\ \A x \in file_index.timers : x.id # c
              /\ \A k \in DOMAIN file_index.index : file_index.index[k] # c
    /\ \A i \in 1..Len(sigs) :
          /\ ~(Pending(i) /\ FiredBy(i) # {})
          /\ \/ Pending(i)
             \/ Invoked(i)
             \/ HasNext(i) /\ FiredBy(i) = {} /\ th[TimerThread(i)].op = "idle"

\* A signal for a.py arrived while register_script(a.py) was in flight: it
\* is pending with its full delay and the action goes on.
C17_Witness ==
    /\ Len(sigs) = 2 /\ sigs[1].arg = a_py /\ sigs[2].arg = a_py
    /\ InFlight(1) /\ th[1].op = "register_script" /\ th[1].ncalls > 0
    /\ Pending(2)
    /\ sigs[2].t > sigs[1].t + D

\* C18 as claimed: no two actions for the same path are in flight at the
\* same time.
C18_Claimed ==
    \A c \in Timers : \A d \in Timers :
        (c # d /\ InFlight(c) /\ InFlight(d)) => th[c].path # th[d].path

\* The registrations the script of path p created that the server holds.
LiveOf(p) == regs \cap UNION {th[c].created : c \in {d \in Timers : th[d].path = p}}

\* C19 as claimed, for actions that all came to their end with no command
\* failing: the server holds at most one registration the script of a path
\* created.
C19_Claimed ==
    ( \A c \in Timers : ~InFlight(c) /\ ~FailedAction(c) /\ ~th[c].upset )
    => \A p \in Paths : Cardinality(LiveOf(p)) <= 1

\* An action for the path of signal j was invoked before the signal was made
\* and failed.
AfterFailure(j) ==
    \E n \in 1..Len(fires) :
        /\ fires[n].arg = sigs[j].arg
        /\ fires[n].seen < j
        /\ FailedAction(TimerThread(fires[n].id))

C21_Claimed ==
    /\ ~main.running => Len(sigs) = main.stopped_at
    /\ main.pc = "exited" => main.closed


\* The identities the scripts of path p created on the server.
CreatedFor(p) ==
    UNION {th[c].created : c \in {d \in 1..MaxActions : th[d].path = p}}

\* C22 as claimed: with the watcher alone on the server, the records of two
\* distinct paths hold distinct identities, and the record of a path holds
\* an identity its own script created.
C22_Claimed ==
    \A p \in ScriptPaths :
        RecordOf(p) # None =>
            /\ RecordOf(p) \in CreatedFor(p)
            /\ \A q \in ScriptPaths \ {p} : RecordOf(q) # RecordOf(p)


\* register_script is past its pre-clean: at one of the commands of its
\* try block, or ended there.
PastPreClean ==
    /\ Cur.op = "register_script"
    /\ \/ Cur.pc \in {"pre_dump", "execute", "post_dump", "record"}
       \/ Cur.pc = "done" /\
          Cur.last \in {"pre_dump", "execute", "post_dump", "record"}

\* C23: when register_script(path) runs for a path that has a record and
\* the file precondition passes, then from before the script is executed
\* the old registration is gone from the server and the record no longer
\* names it; unless a new record was written, the path has no record, in
\* particular when the execution raised or registered nothing.
C23_NoFallback ==
    (PastPreClean /\ Cur.rec0 # None) =>
        /\ Cur.file_seen = "script"
        /\ Cur.rec0 \notin regs
        /\ RecordOf(Cur.path) # Cur.rec0
        /\ "debug: registered" \notin Cur.log => RecordOf(Cur.path) = None

\* A re-registration whose execution raised: the path had a record of a
\* live registration and ends with neither.
C23_Witness ==
    /\ Ended("register_script") /\ Cur.last = "execute"
    /\ "error: something went wrong" \in Cur.log
    /\ Cur.rec0 # None /\ Cur.rec0 \in Cur.regs0
    /\ RecordOf(Cur.path) = None /\ Cur.rec0 \notin regs


\* Signal i was made and is settled: its action was invoked, or a later
\* signal for its path came before its timer ran.
Settled(i) ==
    /\ Len(sigs) >= i
    /\ \/ FiredBy(i) # {}
       \/ HasNext(i) /\ Gap(i) <= D

=============================================================================
